---- MODULE Spec2Model ----
(***************************************************************************)
(* Loan amortization engine of the Finance Dashboard: the payment-count    *)
(* oracle, the EMI formula, the loan detail resolver and the loan          *)
(* collection operations of the useLoans hook.                             *)
(*                                                                         *)
(* Numbers.  The program computes in IEEE doubles.  The model computes in  *)
(* integers: money in whole currency units, a product with the monthly     *)
(* rate annualRate/100/12 as (x * annualRate) \div 1200 (rounded down),    *)
(* and the power in the EMI formula in fixed point (Scale), the EMI being   *)
(* rounded to the nearest unit.                                            *)
(* A value that is NaN or infinite in the program is a record with         *)
(* finite = FALSE.                                                         *)
(*                                                                         *)
(* Dates.  A date is [year, month, date] with month 0..11 as in the        *)
(* JavaScript Date getters; the time of day and the time zone are left     *)
(* out and no year of the model is a leap year.                            *)
(***************************************************************************)
EXTENDS Integers, Sequences, FiniteSets, TLC

VARIABLES loans, today, last, opCount, fin, fout, duesSeen

vars == <<loans, today, last, opCount, fin, fout, duesSeen>>

(***************************************************************************)
(* Bounds of the model                                                     *)
(***************************************************************************)
MaxLoans == 1
MaxPartPayments == 2
MaxOps == 3
MaxMonths == 3
MaxTenure == 4

(***************************************************************************)
(* Program constants                                                       *)
(***************************************************************************)
DueDay == 5
safetyCap == 1200

Scale == 10 * 10 * 10 * 10 * 10 * 10
RateDen == 100 * 12

Max(a, b) == IF a >= b THEN a ELSE b
Min(a, b) == IF a <= b THEN a ELSE b
Abs(a) == IF a < 0 THEN 0 - a ELSE a

RECURSIVE Gcd(_, _)
Gcd(a, b) == IF b = 0 THEN a ELSE Gcd(b, a % b)

(***************************************************************************)
(* Optional fields (undefined in the program): <<>> is undefined and <<v>> *)
(* is the value v.                                                         *)
(***************************************************************************)
None == <<>>
Some(v) == <<v>>
Has(x) == x /= <<>>
Val(x) == x[1]
\* JavaScript truthiness of an optional number: defined and not 0
Truthy(x) == Has(x) /\ Val(x) /= 0

(***************************************************************************)
(* Calendar                                                                *)
(***************************************************************************)
DaysInMonth(month) ==
    CASE month = 1 -> 28
      [] month \in {3, 5, 8, 10} -> 30
      [] OTHER -> 31

\* new Date(year, month, date) for a month outside 0..11 and a date that
\* exists in the resulting month
NewDate(year, month, date) ==
    [year |-> year + (month \div 12), month |-> month % 12, date |-> date]

MonthIndex(d) == d.year * 12 + d.month

\* d1 < d2 on Date objects
DateLess(d1, d2) ==
    \/ MonthIndex(d1) < MonthIndex(d2)
    \/ MonthIndex(d1) = MonthIndex(d2) /\ d1.date < d2.date

DateLeq(d1, d2) == d1 = d2 \/ DateLess(d1, d2)

\* date-fns addMonths: same day of the month, clamped to the month's length
addMonths(d, n) ==
    LET t == NewDate(d.year, d.month + n, 1)
    IN  [t EXCEPT !.date = Min(d.date, DaysInMonth(t.month))]

\* date-fns differenceInMonths: full months from dateRight to dateLeft
differenceInMonths(dateLeft, dateRight) ==
    LET cal == MonthIndex(dateLeft) - MonthIndex(dateRight)
    IN  IF cal > 0
        THEN IF dateLeft.date < dateRight.date THEN cal - 1 ELSE cal
        ELSE IF cal < 0
             THEN IF dateLeft.date > dateRight.date THEN cal + 1 ELSE cal
             ELSE 0

\* the day after d
NextDay(d) ==
    IF d.date < DaysInMonth(d.month)
    THEN [d EXCEPT !.date = d.date + 1]
    ELSE NewDate(d.year, d.month + 1, 1)

(***************************************************************************)
(* EMI formula                                                             *)
(***************************************************************************)
\* (1 + monthlyRate)^(-n) in fixed point, monthlyRate = a / b
RECURSIVE Discount(_, _, _)
Discount(a, b, n) ==
    IF n = 0 THEN Scale
    ELSE IF n > 0 THEN (Discount(a, b, n - 1) * b) \div (a + b)
    ELSE (Discount(a, b, n + 1) * (a + b)) \div b

RateNum(annualRate) == annualRate \div Gcd(Abs(annualRate), RateDen)
RateDiv(annualRate) == RateDen \div Gcd(Abs(annualRate), RateDen)

\* P * r * c / (c - 1) with c = (1 + r)^n is computed as P * r / (1 - 1/c):
\* AnnuityDen is 1 - 1/c (times the rate's denominator) and is 0 exactly
\* when compound - 1 is 0
AnnuityDen(annualRate, tenureMonths) ==
    RateDiv(annualRate)
        * (Scale - Discount(RateNum(annualRate), RateDiv(annualRate), tenureMonths))

\* the principal in equal parts, without the interest
Annuity_Flat(principal, annualRate, tenureMonths) ==
    principal \div tenureMonths

\* the quotient is rounded to the nearest whole unit
Annuity(principal, annualRate, tenureMonths) ==
    (principal * RateNum(annualRate) * Scale
        + (AnnuityDen(annualRate, tenureMonths) \div 2))
        \div AnnuityDen(annualRate, tenureMonths)

calculateEMI(principal, annualRate, tenureMonths) ==
    IF tenureMonths <= 0 \/ principal <= 0 \/ annualRate <= 0
    THEN 0
    ELSE Annuity(principal, annualRate, tenureMonths)

\* src/utils/calculations.ts: the same formula without the guard.  The result
\* is [finite |-> TRUE, val |-> v], or finite = FALSE for NaN and +-Infinity
\* (a division by compound - 1 = 0).
calculateEMIUnguarded(principal, annualRate, tenureMonths) ==
    IF AnnuityDen(annualRate, tenureMonths) = 0
    THEN [finite |-> FALSE, val |-> 0]
    ELSE [finite |-> TRUE, val |-> Annuity(principal, annualRate, tenureMonths)]

(***************************************************************************)
(* Amortization step                                                       *)
(***************************************************************************)
\* balance * monthlyRate with monthlyRate = annualRate / 100 / 12
Interest(balance, annualRate) == (balance * annualRate) \div RateDen

(***************************************************************************)
(* Payment-count oracle                                                    *)
(***************************************************************************)
\* firstDueOf with the start day compared by >= instead of >
firstDueOf_Inclusive(startDate) ==
    LET firstDueBase == NewDate(startDate.year, startDate.month, DueDay)
    IN  IF startDate.date >= DueDay THEN addMonths(firstDueBase, 1) ELSE firstDueBase

firstDueOf(startDate) ==
    LET firstDueBase == NewDate(startDate.year, startDate.month, DueDay)
    IN  IF startDate.date > DueDay THEN addMonths(firstDueBase, 1) ELSE firstDueBase

\* lastPaidAnchorOf with the previous month taken in the same year
lastPaidAnchorOf_SameYear(t) ==
    IF t.date >= DueDay
    THEN NewDate(t.year, t.month, DueDay)
    ELSE [year |-> t.year, month |-> (t.month - 1) % 12, date |-> DueDay]

lastPaidAnchorOf(t) ==
    IF t.date >= DueDay
    THEN NewDate(t.year, t.month, DueDay)
    ELSE NewDate(t.year, t.month - 1, DueDay)

\* paymentsDue counting the months within the calendar year only
paymentsDue_MonthOfYear(startDate, t) ==
    IF DateLess(t, firstDueOf(startDate))
    THEN 0
    ELSE lastPaidAnchorOf(t).month - firstDueOf(startDate).month + 1

\* getEmisPaid before the clamp to the tenure
paymentsDue(startDate, t) ==
    IF DateLess(t, firstDueOf(startDate))
    THEN 0
    ELSE differenceInMonths(lastPaidAnchorOf(t), firstDueOf(startDate)) + 1

\* getEmisPaid without the clamp to the tenure
getEmisPaid_NoClamp(loan, t) ==
    Max(0, paymentsDue(loan.startDate, t))

getEmisPaid(loan, t) ==
    Max(0, Min(paymentsDue(loan.startDate, t), loan.tenure))

(***************************************************************************)
(* Loan detail resolver                                                    *)
(***************************************************************************)
\* getSelectedEmi with the formula EMI taken of the outstanding principal
getSelectedEmi_OfOutstanding(loan) ==
    IF loan.useCustomEmi /\ Truthy(loan.customEmi) /\ Val(loan.customEmi) > 0
    THEN Val(loan.customEmi)
    ELSE calculateEMI(loan.currentPrincipal, loan.interestRate, loan.tenure)

getSelectedEmi(loan) ==
    IF loan.useCustomEmi /\ Truthy(loan.customEmi) /\ Val(loan.customEmi) > 0
    THEN Val(loan.customEmi)
    ELSE calculateEMI(loan.principalAmount, loan.interestRate, loan.tenure)

\* the loop that reduces the principal by the EMIs already due
RECURSIVE PaidLoop(_, _, _, _, _)
PaidLoop(m, emisPaid, remainingPrincipal, selectedEmi, annualRate) ==
    IF ~(m < emisPaid /\ remainingPrincipal > 0 /\ selectedEmi > 0)
    THEN remainingPrincipal
    ELSE LET interestPortion == Interest(remainingPrincipal, annualRate)
             principalPortion == Max(0, selectedEmi - interestPortion)
         IN  IF principalPortion <= 0
             THEN remainingPrincipal
             ELSE PaidLoop(m + 1, emisPaid,
                           Max(0, remainingPrincipal - principalPortion),
                           selectedEmi, annualRate)

\* one pass of the loop that sums the interest of the coming EMIs, on
\* [i, rp, totalInterest, stop]; stop is the break
InterestStep(s, emi, annualRate) ==
    LET interest == Interest(s.rp, annualRate)
        principalPay == Max(0, emi - interest)
    IN  [i |-> s.i + 1, rp |-> Max(0, s.rp - principalPay),
         totalInterest |-> s.totalInterest + interest,
         stop |-> principalPay <= 0]

InterestDone(s, n) == s.stop \/ ~(s.i < n /\ s.rp > 0)

\* at most k passes of the loop from s, the k passes split in two halves
RECURSIVE InterestRun(_, _, _, _, _)
InterestRun(k, s, n, emi, annualRate) ==
    IF k = 0 \/ InterestDone(s, n) THEN s
    ELSE IF k = 1 THEN InterestStep(s, emi, annualRate)
    ELSE InterestRun(k - (k \div 2),
                     InterestRun(k \div 2, s, n, emi, annualRate),
                     n, emi, annualRate)

\* the loop that sums the interest of the coming EMIs
InterestLoop(i, n, rp, emi, annualRate, totalInterest) ==
    InterestRun(Max(0, n - i),
                [i |-> i, rp |-> rp, totalInterest |-> totalInterest,
                 stop |-> FALSE],
                n, emi, annualRate).totalInterest

nextEmiDateOf(t) ==
    LET fifth == NewDate(t.year, t.month, DueDay)
    IN  IF t.date >= DueDay THEN addMonths(fifth, 1) ELSE fifth

\* calculateLoanDetails without the floors at 0 on the principal
RECURSIVE PaidLoop_NoFloor(_, _, _, _, _)
PaidLoop_NoFloor(m, emisPaid, remainingPrincipal, selectedEmi, annualRate) ==
    IF ~(m < emisPaid /\ remainingPrincipal > 0 /\ selectedEmi > 0)
    THEN remainingPrincipal
    ELSE LET interestPortion == Interest(remainingPrincipal, annualRate)
             principalPortion == Max(0, selectedEmi - interestPortion)
         IN  IF principalPortion <= 0
             THEN remainingPrincipal
             ELSE PaidLoop_NoFloor(m + 1, emisPaid,
                                   remainingPrincipal - principalPortion,
                                   selectedEmi, annualRate)

calculateLoanDetails_NoFloor(loan, t) ==
    LET emisPaid == getEmisPaid(loan, t)
        remainingEmis == Max(0, loan.tenure - emisPaid)
        selectedEmi == getSelectedEmi(loan)
        remainingPrincipal ==
            PaidLoop_NoFloor(0, emisPaid, loan.currentPrincipal, selectedEmi,
                             loan.interestRate)
        totalInterest ==
            IF remainingPrincipal > 0 /\ selectedEmi > 0 /\ remainingEmis > 0
            THEN InterestLoop(0, remainingEmis, remainingPrincipal, selectedEmi,
                              loan.interestRate, 0)
            ELSE 0
        totalAmount == remainingPrincipal + totalInterest
    IN  [emiAmount |-> selectedEmi,
         totalInterest |-> totalInterest,
         totalAmount |-> totalAmount,
         remainingEmis |-> remainingEmis,
         remainingPrincipal |-> remainingPrincipal,
         nextEmiDate |-> nextEmiDateOf(t)]

calculateLoanDetails(loan, t) ==
    LET emisPaid == getEmisPaid(loan, t)
        remainingEmis == Max(0, loan.tenure - emisPaid)
        selectedEmi == getSelectedEmi(loan)
        remainingPrincipal ==
            PaidLoop(0, emisPaid, Max(0, loan.currentPrincipal), selectedEmi,
                     loan.interestRate)
        totalInterest ==
            IF remainingPrincipal > 0 /\ selectedEmi > 0 /\ remainingEmis > 0
            THEN InterestLoop(0, remainingEmis, remainingPrincipal, selectedEmi,
                              loan.interestRate, 0)
            ELSE 0
        totalAmount == remainingPrincipal + totalInterest
    IN  [emiAmount |-> selectedEmi,
         totalInterest |-> Max(0, totalInterest),
         totalAmount |-> Max(0, totalAmount),
         remainingEmis |-> remainingEmis,
         remainingPrincipal |-> Max(0, remainingPrincipal),
         nextEmiDate |-> nextEmiDateOf(t)]

(***************************************************************************)
(* Reverse sizing                                                          *)
(***************************************************************************)
\* RemainingStep with a count of -1 for an EMI that cannot amortize
RemainingStep_Sentinel(s, emi, annualRate) ==
    LET interest == Interest(s.rp, annualRate)
        principalPay == Max(0, emi - interest)
    IN  IF principalPay <= 0
        THEN [rp |-> s.rp, months |-> 0 - 1, stop |-> TRUE]
        ELSE [rp |-> Max(0, s.rp - principalPay), months |-> s.months + 1,
              stop |-> FALSE]

\* one pass of the while loop on [rp, months, stop]; stop is the break
RemainingStep(s, emi, annualRate) ==
    LET interest == Interest(s.rp, annualRate)
        principalPay == Max(0, emi - interest)
    IN  IF principalPay <= 0
        THEN [rp |-> s.rp, months |-> 0, stop |-> TRUE]
        ELSE [rp |-> Max(0, s.rp - principalPay), months |-> s.months + 1,
              stop |-> FALSE]

RemainingDone(s) == s.stop \/ ~(s.rp > 0 /\ s.months < safetyCap)

\* at most n passes of the loop from s, the n passes split in two halves
RECURSIVE RemainingLoop(_, _, _, _)
RemainingLoop(n, s, emi, annualRate) ==
    IF n = 0 \/ RemainingDone(s) THEN s
    ELSE IF n = 1 THEN RemainingStep(s, emi, annualRate)
    ELSE RemainingLoop(n - (n \div 2),
                       RemainingLoop(n \div 2, s, emi, annualRate),
                       emi, annualRate)

simulateRemainingEmis(outstanding, emi, annualRate) ==
    IF outstanding <= 0 \/ emi <= 0 \/ annualRate < 0
    THEN 0
    ELSE RemainingLoop(safetyCap,
                       [rp |-> outstanding, months |-> 0, stop |-> FALSE],
                       emi, annualRate).months

(***************************************************************************)
(* Inputs of the model                                                     *)
(***************************************************************************)
StartOfTime == [year |-> 2024, month |-> 10, date |-> 1]

\* the months of the model, MaxMonths of them from StartOfTime on
Months == { NewDate(StartOfTime.year, StartOfTime.month + k, 1) : k \in 0 .. MaxMonths - 1 }

\* every day of the model
AllDates ==
    { dd \in { [mo EXCEPT !.date = d] : mo \in Months, d \in 1 .. 31 } :
        dd.date <= DaysInMonth(dd.month) }

\* the days on which the operations read the clock after the first day: the
\* due day of every month
ClockDates == { dd \in AllDates : dd.date = DueDay }

StartDates == { [StartOfTime EXCEPT !.date = DueDay - 4],
                [StartOfTime EXCEPT !.date = DueDay + 1] }

Principals == {1000, 2000}
NewPrincipals == {1000}
NewRates == {12}
Rates == {12, 24}
Tenures == {3}
CustomEmis == {10, 600}
PartAmounts == {100, 1500}

(***************************************************************************)
(* Loans                                                                   *)
(***************************************************************************)
Loan(id, principal, rate, tenure, emi, useCustom, custom, start) ==
    [id |-> id, principalAmount |-> principal, currentPrincipal |-> principal,
     interestRate |-> rate, tenure |-> tenure, emiAmount |-> emi,
     useCustomEmi |-> useCustom, customEmi |-> custom, startDate |-> start,
     isActive |-> TRUE, partPayments |-> <<>>]

\* the loans the loan form creates: currentPrincipal = principalAmount
NewLoans(id) ==
    { Loan(id, p, r, n, calculateEMI(p, r, n), FALSE, None, sd) :
        p \in NewPrincipals, r \in NewRates, n \in Tenures, sd \in StartDates }
    \cup
    { Loan(id, p, r, simulateRemainingEmis(p, c, r), c, TRUE, Some(c), sd) :
        p \in NewPrincipals, r \in NewRates, c \in CustomEmis, sd \in StartDates }

NoLoan == Loan(0, 0, 0, 0, 0, FALSE, None, StartOfTime)

Ids == { loans[i].id : i \in 1 .. Len(loans) }
LoanOf(id) == loans[CHOOSE i \in 1 .. Len(loans) : loans[i].id = id]

\* loans.map(loan => loan.id === loanId ? f(loan) : loan)
MapLoan(loanId, new) ==
    [i \in 1 .. Len(loans) |-> IF loans[i].id = loanId THEN new ELSE loans[i]]

NoOp(name) == [op |-> name, id |-> 0, pre |-> NoLoan, amt |-> 0,
               live |-> 0, afterAdd |-> FALSE, base |-> NoLoan]

(***************************************************************************)
(* useLoans: addLoan                                                       *)
(***************************************************************************)
AddLoan(loan) ==
    /\ opCount < MaxOps
    /\ Len(loans) < MaxLoans
    /\ loan.tenure <= MaxTenure
    /\ loans' = Append(loans, loan)
    /\ last' = [NoOp("addLoan") EXCEPT !.id = loan.id]
    /\ opCount' = opCount + 1
    /\ UNCHANGED <<today, fin, fout, duesSeen>>

(***************************************************************************)
(* useLoans: addPartPayment                                                *)
(***************************************************************************)
\* addPartPayment that also takes the new outstanding as the loan's principal
addPartPaymentLoan_Rebase(loan, partPayment, t) ==
    LET amt == partPayment.amount
        details == calculateLoanDetails(loan, t)
        baselineOutstanding ==
            IF details.remainingPrincipal /= 0
            THEN details.remainingPrincipal
            ELSE loan.currentPrincipal
    IN  [loan EXCEPT !.partPayments = Append(@, partPayment),
                     !.currentPrincipal = Max(0, baselineOutstanding - amt),
                     !.principalAmount = Max(0, baselineOutstanding - amt)]

addPartPaymentLoan(loan, partPayment, t) ==
    LET amt == partPayment.amount
        details == calculateLoanDetails(loan, t)
        baselineOutstanding ==
            IF details.remainingPrincipal /= 0
            THEN details.remainingPrincipal
            ELSE loan.currentPrincipal
    IN  [loan EXCEPT !.partPayments = Append(@, partPayment),
                     !.currentPrincipal = Max(0, baselineOutstanding - amt)]

AddPartPayment(loanId, amount, date) ==
    /\ opCount < MaxOps
    /\ loanId \in Ids
    /\ Len(LoanOf(loanId).partPayments) < MaxPartPayments
    /\ LET loan == LoanOf(loanId)
           partPayment == [id |-> opCount + 1, amount |-> amount, date |-> date]
       IN  /\ loans' = MapLoan(loanId, addPartPaymentLoan(loan, partPayment, today))
           /\ last' = [NoOp("add") EXCEPT !.id = loanId, !.pre = loan,
                         !.amt = amount,
                         !.live = calculateLoanDetails(loan, today).remainingPrincipal]
    /\ opCount' = opCount + 1
    /\ UNCHANGED <<today, fin, fout, duesSeen>>

(***************************************************************************)
(* useLoans: removeLastPartPayment                                         *)
(***************************************************************************)
\* removeLastPartPayment removing the entry with the latest date instead of
\* the entry inserted last
removeLastPartPaymentLoan_ByDate(loan) ==
    IF Len(loan.partPayments) = 0
    THEN loan
    ELSE LET n == Len(loan.partPayments)
             k == CHOOSE j \in 1 .. n :
                     \A i \in 1 .. n :
                         \/ DateLess(loan.partPayments[i].date, loan.partPayments[j].date)
                         \/ (loan.partPayments[i].date = loan.partPayments[j].date
                               /\ i <= j)
             amt == loan.partPayments[k].amount
             restored == loan.currentPrincipal + amt
             capped == Min(restored, loan.principalAmount)
         IN  [loan EXCEPT !.partPayments =
                              SubSeq(@, 1, k - 1) \o SubSeq(@, k + 1, n),
                          !.currentPrincipal = capped]

removeLastPartPaymentLoan(loan) ==
    IF Len(loan.partPayments) = 0
    THEN loan
    ELSE LET lastPayment == loan.partPayments[Len(loan.partPayments)]
             amt == lastPayment.amount
             restored == loan.currentPrincipal + amt
             capped == Min(restored, loan.principalAmount)
         IN  [loan EXCEPT !.partPayments = SubSeq(@, 1, Len(@) - 1),
                          !.currentPrincipal = capped]

RemoveLastPartPayment(loanId) ==
    /\ opCount < MaxOps
    /\ loanId \in Ids
    /\ LET loan == LoanOf(loanId)
       IN  /\ loans' = MapLoan(loanId, removeLastPartPaymentLoan(loan))
           /\ last' = [NoOp("undo") EXCEPT !.id = loanId, !.pre = loan,
                         !.amt = IF Len(loan.partPayments) = 0 THEN 0
                                 ELSE loan.partPayments[Len(loan.partPayments)].amount,
                         !.afterAdd = (last.op = "add" /\ last.id = loanId),
                         !.base = IF last.op = "add" /\ last.id = loanId
                                  THEN last.pre ELSE NoLoan]
    /\ opCount' = opCount + 1
    /\ UNCHANGED <<today, fin, fout, duesSeen>>

(***************************************************************************)
(* The wall clock                                                          *)
(***************************************************************************)
AdvanceClock(t) ==
    /\ DateLess(today, t)
    /\ today' = t
    /\ last' = NoOp("clock")
    /\ UNCHANGED <<loans, opCount, fin, fout, duesSeen>>

(***************************************************************************)
(* useLoans: updateLoan                                                    *)
(***************************************************************************)
\* Partial<Loan>: a field that is absent (or undefined) is None; customEmiKey
\* says that the key customEmi is present, with a value or with undefined
NoUpdates ==
    [principalAmount |-> None, currentPrincipal |-> None, interestRate |-> None,
     tenure |-> None, emiAmount |-> None, useCustomEmi |-> None,
     customEmi |-> None, customEmiKey |-> FALSE, startDate |-> None,
     isActive |-> None, partPayments |-> None]

Merged(old, new) == IF Has(new) THEN Val(new) ELSE old

\* updateLoan without the precedence of an explicitly edited EMI
updateLoanLoan_NoOverride(loan, updates) ==
    LET principalAmount == Merged(loan.principalAmount, updates.principalAmount)
        mergedPrincipal == Merged(loan.currentPrincipal, updates.currentPrincipal)
        interestRate == Merged(loan.interestRate, updates.interestRate)
        tenure == Merged(loan.tenure, updates.tenure)
        emiAmount == Merged(loan.emiAmount, updates.emiAmount)
        useCustomEmi == Merged(loan.useCustomEmi, updates.useCustomEmi)
        customEmi == IF updates.customEmiKey THEN updates.customEmi ELSE loan.customEmi
        currentPrincipal ==
            IF Has(updates.principalAmount) /\ ~Has(updates.currentPrincipal)
            THEN IF Val(updates.principalAmount) /= 0
                 THEN Val(updates.principalAmount)
                 ELSE mergedPrincipal
            ELSE mergedPrincipal
        editedEmi == Has(updates.emiAmount) \/ Has(updates.customEmi)
                        \/ Has(updates.useCustomEmi)
        editedRate == Has(updates.interestRate)
        editedTenure == Has(updates.tenure)
        selected1 ==
            IF useCustomEmi
            THEN IF Truthy(customEmi) /\ Val(customEmi) > 0 THEN Val(customEmi)
                 ELSE IF emiAmount > 0 THEN emiAmount ELSE 0
            ELSE IF editedEmi /\ emiAmount > 0 THEN emiAmount ELSE 0
        principalForCalc ==
            IF currentPrincipal /= 0 THEN currentPrincipal ELSE principalAmount
        annualRate == interestRate
        selected2 ==
            IF ~useCustomEmi
                /\ (editedRate \/ editedTenure \/ (selected1 = 0 /\ tenure > 0))
                /\ tenure > 0
            THEN calculateEMI(principalForCalc, annualRate, tenure)
            ELSE selected1
        selected3 == IF selected2 = 0 /\ emiAmount > 0 THEN emiAmount ELSE selected2
        selectedEmi == selected3
        remaining == simulateRemainingEmis(principalForCalc, selectedEmi, annualRate)
    IN  [loan EXCEPT
            !.principalAmount = principalAmount,
            !.currentPrincipal = currentPrincipal,
            !.interestRate = interestRate,
            !.emiAmount = selectedEmi,
            !.useCustomEmi = useCustomEmi,
            !.customEmi = IF useCustomEmi /\ Truthy(customEmi) THEN customEmi ELSE None,
            !.tenure = IF remaining > 0 THEN remaining ELSE tenure,
            !.startDate = Merged(loan.startDate, updates.startDate),
            !.isActive = Merged(loan.isActive, updates.isActive),
            !.partPayments = Merged(loan.partPayments, updates.partPayments)]

updateLoanLoan(loan, updates) ==
    LET principalAmount == Merged(loan.principalAmount, updates.principalAmount)
        mergedPrincipal == Merged(loan.currentPrincipal, updates.currentPrincipal)
        interestRate == Merged(loan.interestRate, updates.interestRate)
        tenure == Merged(loan.tenure, updates.tenure)
        emiAmount == Merged(loan.emiAmount, updates.emiAmount)
        useCustomEmi == Merged(loan.useCustomEmi, updates.useCustomEmi)
        customEmi == IF updates.customEmiKey THEN updates.customEmi ELSE loan.customEmi
        currentPrincipal ==
            IF Has(updates.principalAmount) /\ ~Has(updates.currentPrincipal)
            THEN IF Val(updates.principalAmount) /= 0
                 THEN Val(updates.principalAmount)
                 ELSE mergedPrincipal
            ELSE mergedPrincipal
        editedEmi == Has(updates.emiAmount) \/ Has(updates.customEmi)
                        \/ Has(updates.useCustomEmi)
        editedRate == Has(updates.interestRate)
        editedTenure == Has(updates.tenure)
        selected1 ==
            IF useCustomEmi
            THEN IF Truthy(customEmi) /\ Val(customEmi) > 0 THEN Val(customEmi)
                 ELSE IF emiAmount > 0 THEN emiAmount ELSE 0
            ELSE IF editedEmi /\ emiAmount > 0 THEN emiAmount ELSE 0
        principalForCalc ==
            IF currentPrincipal /= 0 THEN currentPrincipal ELSE principalAmount
        annualRate == interestRate
        selected2 ==
            IF ~useCustomEmi
                /\ (editedRate \/ editedTenure \/ (selected1 = 0 /\ tenure > 0))
                /\ tenure > 0
            THEN calculateEMI(principalForCalc, annualRate, tenure)
            ELSE selected1
        selected3 == IF selected2 = 0 /\ emiAmount > 0 THEN emiAmount ELSE selected2
        selectedEmi ==
            IF editedEmi
            THEN IF useCustomEmi /\ Truthy(customEmi) THEN Val(customEmi)
                 ELSE IF emiAmount /= 0 THEN emiAmount ELSE selected3
            ELSE selected3
        remaining == simulateRemainingEmis(principalForCalc, selectedEmi, annualRate)
    IN  [loan EXCEPT
            !.principalAmount = principalAmount,
            !.currentPrincipal = currentPrincipal,
            !.interestRate = interestRate,
            !.emiAmount = selectedEmi,
            !.useCustomEmi = useCustomEmi,
            !.customEmi = IF useCustomEmi /\ Truthy(customEmi) THEN customEmi ELSE None,
            !.tenure = IF remaining > 0 THEN remaining ELSE tenure,
            !.startDate = Merged(loan.startDate, updates.startDate),
            !.isActive = Merged(loan.isActive, updates.isActive),
            !.partPayments = Merged(loan.partPayments, updates.partPayments)]

UpdateStep(loanId, updates, name) ==
    /\ opCount < MaxOps
    /\ loanId \in Ids
    /\ LET loan == LoanOf(loanId)
           new == updateLoanLoan(loan, updates)
       IN  /\ new.tenure <= MaxTenure
           /\ loans' = MapLoan(loanId, new)
           /\ last' = [NoOp(name) EXCEPT !.id = loanId]
    /\ opCount' = opCount + 1
    /\ UNCHANGED <<today, fin, fout, duesSeen>>

\* the edits that do not supply currentPrincipal
PartialEdits ==
    { [NoUpdates EXCEPT !.principalAmount = Some(p)] : p \in Principals \cup {0} }
    \cup { [NoUpdates EXCEPT !.interestRate = Some(r)] : r \in Rates }
    \cup { [NoUpdates EXCEPT !.tenure = Some(n)] : n \in Tenures }
    \cup { [NoUpdates EXCEPT !.emiAmount = Some(e)] : e \in CustomEmis }
    \cup { [NoUpdates EXCEPT !.useCustomEmi = Some(TRUE), !.customEmi = Some(c),
                             !.customEmiKey = TRUE] : c \in CustomEmis }
    \cup { [NoUpdates EXCEPT !.useCustomEmi = Some(FALSE)] }

UpdateLoan(loanId, updates) == UpdateStep(loanId, updates, "update")

(***************************************************************************)
(* LoanForm.handleFormSubmit and LoanManagement.handleEditLoan             *)
(***************************************************************************)
\* the values of the edit form
FormData ==
    [principalAmount : Principals, interestRate : Rates, tenure : Tenures,
     useCustomEmi : {FALSE}, customEmi : {0}]
    \cup [principalAmount : Principals, interestRate : Rates, tenure : Tenures,
          useCustomEmi : {TRUE}, customEmi : CustomEmis]

\* the loan data the form submits for the existing loan
handleFormSubmit(loan, data) ==
    LET calculatedEmi ==
            IF data.principalAmount /= 0 /\ data.interestRate /= 0 /\ data.tenure /= 0
            THEN calculateEMI(data.principalAmount, data.interestRate, data.tenure)
            ELSE 0
        emiAmount ==
            IF data.useCustomEmi /\ data.customEmi /= 0 THEN data.customEmi
            ELSE calculatedEmi
    IN  [NoUpdates EXCEPT
            !.principalAmount = Some(data.principalAmount),
            !.currentPrincipal = Some(loan.currentPrincipal),
            !.interestRate = Some(data.interestRate),
            !.emiAmount = Some(emiAmount),
            !.useCustomEmi = Some(data.useCustomEmi),
            !.customEmi = IF data.useCustomEmi
                          THEN Some(IF data.customEmi /= 0 THEN data.customEmi
                                    ELSE emiAmount)
                          ELSE None,
            !.customEmiKey = TRUE,
            !.startDate = Some(loan.startDate),
            !.tenure = Some(data.tenure),
            !.isActive = Some(TRUE),
            !.partPayments = Some(loan.partPayments)]

handleEditLoanUpdates(editingLoan, loanData) ==
    LET shouldUpdateCurrentPrincipal ==
            Val(loanData.principalAmount) /= editingLoan.principalAmount
    IN  [loanData EXCEPT
            !.currentPrincipal =
                IF shouldUpdateCurrentPrincipal
                THEN loanData.principalAmount
                ELSE Some(editingLoan.currentPrincipal),
            !.partPayments = Some(editingLoan.partPayments)]

HandleEditLoan(loanId, data) ==
    /\ loanId \in Ids
    /\ UpdateStep(loanId,
                  handleEditLoanUpdates(LoanOf(loanId),
                                        handleFormSubmit(LoanOf(loanId), data)),
                  "edit")

(***************************************************************************)
(* Specification of the loan collection                                    *)
(***************************************************************************)
\* the loans that storage.getLoans() returns when the hook mounts
StoredLoans == { <<>> } \cup { <<loan>> : loan \in { l \in NewLoans(1) : l.tenure <= MaxTenure } }

Init ==
    /\ loans \in StoredLoans
    /\ today = StartOfTime
    /\ last = NoOp("init")
    /\ opCount = 0
    /\ fin = <<>>
    /\ fout = <<>>
    /\ duesSeen = 0

Next ==
    \/ \E loan \in NewLoans(Len(loans) + 1) : AddLoan(loan)
    \/ \E id \in Ids, updates \in PartialEdits : UpdateLoan(id, updates)
    \/ \E id \in Ids, data \in FormData : HandleEditLoan(id, data)
    \/ \E id \in Ids, amount \in PartAmounts, date \in {StartOfTime, today} :
          AddPartPayment(id, amount, date)
    \/ \E id \in Ids : RemoveLastPartPayment(id)
    \/ \E t \in ClockDates : AdvanceClock(t)

Spec == Init /\ [][Next]_vars

(***************************************************************************)
(* Specification of the payment-count oracle: one loan and the calendar,   *)
(* day by day.  duesSeen counts the due days (5th of a month) that the     *)
(* calendar has passed since the loan's start date.                        *)
(***************************************************************************)
OracleStartDates ==
    { dd \in AllDates :
        /\ dd.date \in {1, DueDay, DueDay + 1, 28}
        /\ MonthIndex(dd) <= MonthIndex(StartOfTime) + 1 }

InitDates ==
    /\ loans \in { << Loan(1, p, r, n, calculateEMI(p, r, n), FALSE, None, sd) >> :
                     p \in NewPrincipals, r \in NewRates, n \in 0 .. MaxTenure,
                     sd \in OracleStartDates }
    /\ today = StartOfTime
    /\ last = NoOp("init")
    /\ opCount = 0
    /\ fin = <<>>
    /\ fout = <<>>
    /\ duesSeen = 0

Tick ==
    /\ NextDay(today) \in AllDates
    /\ today' = NextDay(today)
    /\ duesSeen' = IF today'.date = DueDay /\ DateLeq(loans[1].startDate, today')
                   THEN duesSeen + 1 ELSE duesSeen
    /\ last' = NoOp("clock")
    /\ UNCHANGED <<loans, opCount, fin, fout>>

NextDates == Tick

SpecDates == InitDates /\ [][NextDates]_vars

(***************************************************************************)
(* Specification of the EMI formula: the inputs are drawn at the start and *)
(* one step applies both definitions of calculateEMI to them.              *)
(***************************************************************************)
EmiInputs ==
    [principal : {0 - 1000, 0, 1000, 2000},
     annualRate : {0 - 12, 0, 12, 24},
     tenureMonths : (0 - 1) .. MaxTenure]

InitEmi ==
    /\ loans = <<>>
    /\ today = StartOfTime
    /\ last = NoOp("init")
    /\ opCount = 0
    /\ fin \in EmiInputs
    /\ fout = <<>>
    /\ duesSeen = 0

ComputeEmi ==
    /\ last.op = "init"
    /\ fout' = [table |-> calculateEMI(fin.principal, fin.annualRate, fin.tenureMonths),
                utils |-> calculateEMIUnguarded(fin.principal, fin.annualRate,
                                                fin.tenureMonths)]
    /\ last' = NoOp("emi")
    /\ UNCHANGED <<loans, today, opCount, fin, duesSeen>>

NextEmi == ComputeEmi

SpecEmi == InitEmi /\ [][NextEmi]_vars

(***************************************************************************)
(* Savings estimator and loan projection                                   *)
(***************************************************************************)
maxMonths == 60

\* one pass of the loop that sums the interest of the loan after the part
\* payment, on [i, rp, totalInterest, stop]; stop is the break
SavingsStep(s, newEMI, annualRate) ==
    LET interest == Interest(s.rp, annualRate)
        principalPay == Max(0, newEMI - interest)
    IN  [i |-> s.i + 1, rp |-> Max(0, s.rp - principalPay),
         totalInterest |-> s.totalInterest + interest,
         stop |-> principalPay <= 0]

SavingsDone(s, n) == s.stop \/ ~(s.i < n /\ s.rp > 0)

\* at most k passes of the loop from s, the k passes split in two halves
RECURSIVE SavingsRun(_, _, _, _, _)
SavingsRun(k, s, n, newEMI, annualRate) ==
    IF k = 0 \/ SavingsDone(s, n) THEN s
    ELSE IF k = 1 THEN SavingsStep(s, newEMI, annualRate)
    ELSE SavingsRun(k - (k \div 2),
                    SavingsRun(k \div 2, s, n, newEMI, annualRate),
                    n, newEMI, annualRate)

\* the loop that sums the interest of the loan after the part payment
SavingsLoop(i, n, rp, newEMI, annualRate, totalInterest) ==
    SavingsRun(Max(0, n - i),
               [i |-> i, rp |-> rp, totalInterest |-> totalInterest,
                stop |-> FALSE],
               n, newEMI, annualRate).totalInterest

\* calculatePartPaymentSavings without the floor at 0
calculatePartPaymentSavings_NoFloor(loan, partPaymentAmount, t) ==
    LET currentDetails == calculateLoanDetails(loan, t)
        newPrincipal == currentDetails.remainingPrincipal - partPaymentAmount
        newEMI == getSelectedEmi(loan)
    IN  IF currentDetails.remainingPrincipal <= partPaymentAmount
        THEN currentDetails.totalInterest
        ELSE currentDetails.totalInterest
                 - SavingsLoop(0, currentDetails.remainingEmis, newPrincipal,
                               newEMI, loan.interestRate, 0)

\* getSelectedEmi(loan, newPrincipal, remainingEmis) is getSelectedEmi(loan):
\* the function takes one parameter
calculatePartPaymentSavings(loan, partPaymentAmount, t) ==
    LET currentDetails == calculateLoanDetails(loan, t)
        newPrincipal == currentDetails.remainingPrincipal - partPaymentAmount
        newEMI == getSelectedEmi(loan)
    IN  IF currentDetails.remainingPrincipal <= partPaymentAmount
        THEN currentDetails.totalInterest
        ELSE Max(0, currentDetails.totalInterest
                      - SavingsLoop(0, currentDetails.remainingEmis, newPrincipal,
                                    newEMI, loan.interestRate, 0))

\* ProjectionStep without the break at a balance of 0
ProjectionStep_NoBreak(s, emiAmount, annualRate) ==
    LET interestPayment == Interest(s.remainingPrincipal, annualRate)
        principalPayment == Max(0, emiAmount - interestPayment)
        rp == Max(0, s.remainingPrincipal - principalPayment)
    IN  [month |-> s.month + 1, remainingPrincipal |-> rp,
         projection |->
             Append(s.projection,
                    [month |-> s.month, principalPayment |-> principalPayment,
                     interestPayment |-> interestPayment,
                     remainingPrincipal |-> rp]),
         stop |-> FALSE]

\* one pass of the loop of calculateLoanProjection, on
\* [month, remainingPrincipal, projection, stop]; stop is the break
ProjectionStep(s, emiAmount, annualRate) ==
    LET interestPayment == Interest(s.remainingPrincipal, annualRate)
        principalPayment == Max(0, emiAmount - interestPayment)
        rp == Max(0, s.remainingPrincipal - principalPayment)
    IN  [month |-> s.month + 1, remainingPrincipal |-> rp,
         projection |->
             Append(s.projection,
                    [month |-> s.month, principalPayment |-> principalPayment,
                     interestPayment |-> interestPayment,
                     remainingPrincipal |-> rp]),
         stop |-> rp <= 0]

ProjectionDone(s, n) == s.stop \/ ~(s.month <= n)

\* at most k passes of the loop from s, the k passes split in two halves
RECURSIVE ProjectionRun(_, _, _, _, _)
ProjectionRun(k, s, n, emiAmount, annualRate) ==
    IF k = 0 \/ ProjectionDone(s, n) THEN s
    ELSE IF k = 1 THEN ProjectionStep(s, emiAmount, annualRate)
    ELSE ProjectionRun(k - (k \div 2),
                       ProjectionRun(k \div 2, s, n, emiAmount, annualRate),
                       n, emiAmount, annualRate)

\* the loop of calculateLoanProjection for the months month .. n
ProjectionLoop(month, n, remainingPrincipal, emiAmount, annualRate, projection) ==
    ProjectionRun(Max(0, n - month + 1),
                  [month |-> month, remainingPrincipal |-> remainingPrincipal,
                   projection |-> projection, stop |-> FALSE],
                  n, emiAmount, annualRate).projection

\* calculateLoanProjection without the limit of 5 years
calculateLoanProjection_NoCap(loan, t) ==
    LET details == calculateLoanDetails(loan, t)
    IN  ProjectionLoop(1, details.remainingEmis, details.remainingPrincipal,
                       details.emiAmount, loan.interestRate, <<>>)

calculateLoanProjection(loan, t) ==
    LET details == calculateLoanDetails(loan, t)
    IN  ProjectionLoop(1, Min(details.remainingEmis, maxMonths),
                       details.remainingPrincipal, details.emiAmount,
                       loan.interestRate, <<>>)

(***************************************************************************)
(* The number of passes through the body of each loop                      *)
(***************************************************************************)
RECURSIVE PaidLoopPasses(_, _, _, _, _)
PaidLoopPasses(m, emisPaid, remainingPrincipal, selectedEmi, annualRate) ==
    IF ~(m < emisPaid /\ remainingPrincipal > 0 /\ selectedEmi > 0)
    THEN m
    ELSE LET principalPortion ==
                 Max(0, selectedEmi - Interest(remainingPrincipal, annualRate))
         IN  IF principalPortion <= 0
             THEN m + 1
             ELSE PaidLoopPasses(m + 1, emisPaid,
                                 Max(0, remainingPrincipal - principalPortion),
                                 selectedEmi, annualRate)

InterestLoopPasses(i, n, rp, emi, annualRate) ==
    InterestRun(Max(0, n - i),
                [i |-> i, rp |-> rp, totalInterest |-> 0, stop |-> FALSE],
                n, emi, annualRate).i

SavingsLoopPasses(i, n, rp, newEMI, annualRate) ==
    SavingsRun(Max(0, n - i),
               [i |-> i, rp |-> rp, totalInterest |-> 0, stop |-> FALSE],
               n, newEMI, annualRate).i

\* the passes of the three loops that calculatePartPaymentSavings runs for
\* the loan: the two of the resolver and its own
LoopPasses(loan, partPaymentAmount, t) ==
    LET emisPaid == getEmisPaid(loan, t)
        selectedEmi == getSelectedEmi(loan)
        details == calculateLoanDetails(loan, t)
    IN  [paid |-> PaidLoopPasses(0, emisPaid, Max(0, loan.currentPrincipal),
                                 selectedEmi, loan.interestRate),
         interest |->
             IF details.remainingPrincipal > 0 /\ selectedEmi > 0
                 /\ details.remainingEmis > 0
             THEN InterestLoopPasses(0, details.remainingEmis,
                                     details.remainingPrincipal, selectedEmi,
                                     loan.interestRate)
             ELSE 0,
         savings |->
             IF details.remainingPrincipal <= partPaymentAmount
             THEN 0
             ELSE SavingsLoopPasses(0, details.remainingEmis,
                                    details.remainingPrincipal - partPaymentAmount,
                                    selectedEmi, loan.interestRate)]

(***************************************************************************)
(* Specification of the simulations: a loan, a part-payment amount and a   *)
(* date are drawn at the start and one step runs the resolver, the savings *)
(* estimator, the projection and the reverse sizing on them.               *)
(***************************************************************************)
SimAmounts == {0, 100, 1200, 50000}

\* a loan whose EMI barely exceeds the interest, over more than 5 years
SlowLoans ==
    { Loan(1, 1200 * 1000, 1, maxMonths + 12, 1001, TRUE, Some(1001), sd) :
        sd \in StartDates }

SimCustomEmis == {None} \cup { Some(emi) : emi \in CustomEmis }

SimLoans ==
    { [Loan(1, p, r, n, calculateEMI(p, r, n), c /= None, c, sd)
          EXCEPT !.currentPrincipal = IF paid THEN 0 ELSE p] :
        p \in Principals, paid \in BOOLEAN, r \in Rates, n \in 0 .. MaxTenure,
        c \in SimCustomEmis, sd \in StartDates }
    \cup SlowLoans

InitSim ==
    /\ loans = <<>>
    /\ today \in ClockDates \cup {StartOfTime}
    /\ last = NoOp("init")
    /\ opCount = 0
    /\ fin \in [loan : SimLoans, amount : SimAmounts]
    /\ fout = <<>>
    /\ duesSeen = 0

Simulate ==
    /\ last.op = "init"
    /\ fout' = [details |-> calculateLoanDetails(fin.loan, today),
                savings |-> calculatePartPaymentSavings(fin.loan, fin.amount, today),
                projection |-> calculateLoanProjection(fin.loan, today),
                remaining |-> simulateRemainingEmis(fin.loan.currentPrincipal,
                                                    getSelectedEmi(fin.loan),
                                                    fin.loan.interestRate),
                passes |-> LoopPasses(fin.loan, fin.amount, today)]
    /\ last' = NoOp("sim")
    /\ UNCHANGED <<loans, today, opCount, fin, duesSeen>>

NextSim == Simulate

SpecSim == InitSim /\ [][NextSim]_vars

(***************************************************************************)
(* Aggregates of the dashboard and suggestions                             *)
(***************************************************************************)
\* loans.filter(loan => loan.isActive)
ActiveLoans(ls) == SelectSeq(ls, LAMBDA loan : loan.isActive)

\* reduce((total, x) => total + x, 0)
RECURSIVE SumOver(_)
SumOver(terms) ==
    IF Len(terms) = 0 THEN 0
    ELSE SumOver(SubSeq(terms, 1, Len(terms) - 1)) + terms[Len(terms)]

\* calculateTotalDebt without the filter on isActive
calculateTotalDebt_AllLoans(ls, t) ==
    SumOver([i \in 1 .. Len(ls) |->
                calculateLoanDetails(ls[i], t).remainingPrincipal])

calculateTotalDebt(ls, t) ==
    LET activeLoans == ActiveLoans(ls)
    IN  SumOver([i \in 1 .. Len(activeLoans) |->
                    calculateLoanDetails(activeLoans[i], t).remainingPrincipal])

calculateTotalMonthlyEMI(ls, t) ==
    LET activeLoans == ActiveLoans(ls)
    IN  SumOver([i \in 1 .. Len(activeLoans) |->
                    LET details == calculateLoanDetails(activeLoans[i], t)
                    IN  IF details.remainingEmis > 0 THEN details.emiAmount
                        ELSE 0])

Suggestion(id, type, priority, potentialSavings, loanId) ==
    [id |-> id, type |-> type, priority |-> priority,
     potentialSavings |-> potentialSavings, loanId |-> loanId]

\* sortedByRate[0] of the stable sort by interest rate, highest first: the
\* first of the active loans with the highest rate
highestRateLoanOf(activeLoans) ==
    activeLoans[CHOOSE i \in 1 .. Len(activeLoans) :
                   \A j \in 1 .. Len(activeLoans) :
                       \/ activeLoans[j].interestRate < activeLoans[i].interestRate
                       \/ (activeLoans[j].interestRate = activeLoans[i].interestRate
                             /\ i <= j)]

generateSuggestions(ls, t) ==
    LET activeLoans == ActiveLoans(ls)
        highestRateLoan == highestRateLoanOf(activeLoans)
        partPayment ==
            IF calculateLoanDetails(highestRateLoan, t).remainingEmis > 12
            THEN << Suggestion(<<"part-payment", highestRateLoan.id>>,
                               "part_payment", "high",
                               Some(calculatePartPaymentSavings(highestRateLoan,
                                                                50000, t)),
                               Some(highestRateLoan.id)) >>
            ELSE <<>>
        shortTermHighRate ==
            SelectSeq(activeLoans,
                      LAMBDA loan :
                          /\ calculateLoanDetails(loan, t).remainingEmis <= 24
                          /\ loan.interestRate > 8)
        focus ==
            IF Len(shortTermHighRate) > 0
            THEN << Suggestion(<<"focus-short-term">>, "general", "medium",
                               None, None) >>
            ELSE <<>>
        emergency ==
            << Suggestion(<<"emergency-fund">>, "savings", "high", None, None) >>
    IN  IF Len(activeLoans) = 0
        THEN <<>>
        ELSE partPayment \o focus \o emergency

\* the totals of one month over the projections of the active loans
CombinedMonth(projections, month) ==
    LET found == SelectSeq(projections, LAMBDA projection : month <= Len(projection))
    IN  [month |-> month,
         totalPrincipalPayment |->
             SumOver([i \in 1 .. Len(found) |-> found[i][month].principalPayment]),
         totalInterestPayment |->
             SumOver([i \in 1 .. Len(found) |-> found[i][month].interestPayment]),
         totalRemainingPrincipal |->
             SumOver([i \in 1 .. Len(found) |-> found[i][month].remainingPrincipal])]

\* the loop pushes the months 1, 2, ... and breaks at the first month > 1
\* whose total remaining principal is <= 0
getCombinedLoanProjection(ls, t) ==
    LET activeLoans == ActiveLoans(ls)
        projections ==
            [i \in 1 .. Len(activeLoans) |-> calculateLoanProjection(activeLoans[i], t)]
        combined == [month \in 1 .. maxMonths |-> CombinedMonth(projections, month)]
        breaks == { month \in 2 .. maxMonths :
                      combined[month].totalRemainingPrincipal <= 0 }
        pushed == IF breaks = {} THEN maxMonths
                  ELSE (CHOOSE month \in breaks :
                            \A other \in breaks : month <= other) - 1
    IN  SubSeq(combined, 1, pushed)

\* useDashboard: the earliest next EMI date among the active loans
dashboardNextEmiDate(ls, t) ==
    LET activeLoans == ActiveLoans(ls)
        dates == { calculateLoanDetails(activeLoans[i], t).nextEmiDate :
                     i \in 1 .. Len(activeLoans) }
    IN  IF Len(activeLoans) /= 0
        THEN CHOOSE d \in dates : \A other \in dates : DateLeq(d, other)
        ELSE NewDate(t.year, t.month, DueDay)

useDashboard(ls, t) ==
    [totalOutstandingDebt |-> calculateTotalDebt(ls, t),
     monthlyEmi |-> calculateTotalMonthlyEMI(ls, t),
     nextEmiDate |-> dashboardNextEmiDate(ls, t),
     projection |-> getCombinedLoanProjection(ls, t),
     suggestions |-> generateSuggestions(ls, t)]

(***************************************************************************)
(* Specification of the dashboard: a collection of active and inactive     *)
(* loans is loaded and the dashboard is computed for it.                   *)
(***************************************************************************)
DashRates == {6, 12, 24}
DashTenures == {3, 18}

DashLoan(id) ==
    { [Loan(id, p, r, n, calculateEMI(p, r, n), FALSE, None, StartOfTime)
          EXCEPT !.isActive = active] :
        p \in NewPrincipals, r \in DashRates, n \in DashTenures,
        active \in BOOLEAN }
    \cup
    \* loans on a custom EMI, with the tenure the loan form sizes for them
    { Loan(id, p, r, simulateRemainingEmis(p, c, r), c, TRUE, Some(c), StartOfTime) :
        p \in Principals, r \in NewRates, c \in { e \in CustomEmis : e > 100 } }

RECURSIVE DashCollections(_)
DashCollections(k) ==
    IF k = 0 THEN { <<>> }
    ELSE DashCollections(k - 1)
           \cup { Append(ls, loan) :
                    ls \in { c \in DashCollections(k - 1) : Len(c) = k - 1 },
                    loan \in DashLoan(k) }

InitDash ==
    /\ loans \in DashCollections(MaxLoans + 1)
    /\ today \in {StartOfTime, NewDate(StartOfTime.year, StartOfTime.month + 1, DueDay)}
    /\ last = NoOp("init")
    /\ opCount = 0
    /\ fin = <<>>
    /\ fout = <<>>
    /\ duesSeen = 0

Refresh ==
    /\ last.op = "init"
    /\ fout' = useDashboard(loans, today)
    /\ last' = NoOp("refresh")
    /\ UNCHANGED <<loans, today, opCount, fin, duesSeen>>

NextDash == Refresh

SpecDash == InitDash /\ [][NextDash]_vars

(***************************************************************************)
(* Specification of updateLoan on one loan: a stored loan and an edit are  *)
(* drawn at the start and one step applies the edit to the loan.           *)
(***************************************************************************)
\* the loans a collection can hold: on the formula EMI or on a custom EMI,
\* with the outstanding untouched, reduced by a part payment or paid off
EditedLoans ==
    { [Loan(1, p, r, n, IF c = None THEN calculateEMI(p, r, n) ELSE Val(c),
            c /= None, c, StartOfTime)
          EXCEPT !.currentPrincipal = Max(0, p - paid)] :
        p \in Principals, paid \in {0} \cup PartAmounts \cup Principals,
        r \in Rates, n \in 1 .. MaxTenure, c \in SimCustomEmis }

\* the edits: every field is absent or supplied
Edits ==
    { [NoUpdates EXCEPT !.principalAmount = p, !.interestRate = r, !.tenure = n,
                        !.emiAmount = e, !.useCustomEmi = m[1],
                        !.customEmi = m[2], !.customEmiKey = m[3]] :
        p \in {None} \cup { Some(x) : x \in Principals },
        r \in {None} \cup { Some(x) : x \in Rates },
        n \in {None} \cup { Some(x) : x \in Tenures },
        e \in {None} \cup { Some(x) : x \in CustomEmis },
        m \in { <<None, None, FALSE>>, <<Some(FALSE), None, FALSE>>,
                <<Some(FALSE), None, TRUE>> }
              \cup { <<Some(TRUE), Some(x), TRUE>> : x \in CustomEmis } }

InitUpdate ==
    /\ loans = <<>>
    /\ today = StartOfTime
    /\ last = NoOp("init")
    /\ opCount = 0
    /\ fin \in [loan : EditedLoans, updates : Edits]
    /\ fout = <<>>
    /\ duesSeen = 0

ApplyUpdate ==
    /\ last.op = "init"
    /\ fout' = updateLoanLoan(fin.loan, fin.updates)
    /\ last' = NoOp("updated")
    /\ UNCHANGED <<loans, today, opCount, fin, duesSeen>>

NextUpdate == ApplyUpdate

SpecUpdate == InitUpdate /\ [][NextUpdate]_vars

(***************************************************************************)
(* Specification of the three mapping mutators on a collection of several  *)
(* loans: a collection and a date are drawn at the start and one step      *)
(* calls addPartPayment, removeLastPartPayment or updateLoan with the id   *)
(* of one of the loans or with an id that no loan has.  fin keeps the      *)
(* collection before the call.                                             *)
(***************************************************************************)
\* loans.map(loan => loan.id === loanId ? {...loan, partPayments, currentPrincipal} : loan)
addPartPaymentOf(ls, loanId, partPayment, t) ==
    [i \in 1 .. Len(ls) |->
        IF ls[i].id = loanId THEN addPartPaymentLoan(ls[i], partPayment, t)
        ELSE ls[i]]

removeLastPartPaymentOf(ls, loanId) ==
    [i \in 1 .. Len(ls) |->
        IF ls[i].id = loanId THEN removeLastPartPaymentLoan(ls[i]) ELSE ls[i]]

\* updateLoan applying the edit to every loan of the collection
updateLoanOf_Every(ls, loanId, updates) ==
    [i \in 1 .. Len(ls) |-> updateLoanLoan(ls[i], updates)]

updateLoanOf(ls, loanId, updates) ==
    [i \in 1 .. Len(ls) |->
        IF ls[i].id = loanId THEN updateLoanLoan(ls[i], updates) ELSE ls[i]]

\* a stored loan with the given id, without or with one part payment
FrameLoan(id) ==
    LET fresh == { l \in NewLoans(id) : l.startDate.date < DueDay }
    IN  fresh \cup
        { addPartPaymentLoan(l, [id |-> 0, amount |-> a, date |-> StartOfTime],
                             StartOfTime) : l \in fresh, a \in PartAmounts }

RECURSIVE FrameCollections(_)
FrameCollections(k) ==
    IF k = 0 THEN { <<>> }
    ELSE { Append(ls, l) : ls \in FrameCollections(k - 1), l \in FrameLoan(k) }

\* the ids of the calls: the ids of the loans and one id that no loan has
FrameIds == 1 .. MaxLoans + 2

InitFrame ==
    /\ loans \in FrameCollections(MaxLoans + 1)
    /\ today \in {StartOfTime} \cup ClockDates
    /\ last = NoOp("init")
    /\ opCount = 0
    /\ fin = <<>>
    /\ fout = <<>>
    /\ duesSeen = 0

FrameStep(loanId, name, new) ==
    /\ last.op = "init"
    /\ loans' = new
    /\ fin' = loans
    /\ last' = [NoOp(name) EXCEPT !.id = loanId]
    /\ UNCHANGED <<today, opCount, fout, duesSeen>>

FrameAddPartPayment(loanId, amount) ==
    FrameStep(loanId, "addPartPayment",
              addPartPaymentOf(loans, loanId,
                               [id |-> opCount + 1, amount |-> amount, date |-> today],
                               today))

FrameRemoveLastPartPayment(loanId) ==
    FrameStep(loanId, "removeLastPartPayment", removeLastPartPaymentOf(loans, loanId))

FrameUpdateLoan(loanId, updates) ==
    FrameStep(loanId, "updateLoan", updateLoanOf(loans, loanId, updates))

NextFrame ==
    \/ \E id \in FrameIds, amount \in PartAmounts : FrameAddPartPayment(id, amount)
    \/ \E id \in FrameIds : FrameRemoveLastPartPayment(id)
    \/ \E id \in FrameIds, updates \in PartialEdits : FrameUpdateLoan(id, updates)

SpecFrame == InitFrame /\ [][NextFrame]_vars

(***************************************************************************)
(* Properties                                                              *)
(***************************************************************************)
LastLoan == LoanOf(last.id)
Resolved(loan) == calculateLoanDetails(loan, today)

\* C1: after any sequence of updateLoan (without currentPrincipal, or as
\* handleEditLoan builds the edit), addPartPayment and removeLastPartPayment,
\* every loan's currentPrincipal is at most its principalAmount.
C1_CurrentPrincipalWithinPrincipal ==
    \A i \in 1 .. Len(loans) :
        loans[i].currentPrincipal <= loans[i].principalAmount

\* C2: addPartPayment immediately followed by removeLastPartPayment leaves
\* the loan with the currentPrincipal it had before the payment (capped at
\* principalAmount) and with the partPayments list it had before the payment.
C2_UndoRestoresPrePayment ==
    (last.op = "undo" /\ last.afterAdd) =>
        /\ LastLoan.currentPrincipal =
              Min(last.base.currentPrincipal, last.base.principalAmount)
        /\ LastLoan.partPayments = last.base.partPayments

\* C3: a part payment X with 0 < X <= R, R the resolver's remainingPrincipal
\* before the payment, makes the resolver return R - X at the same date.
C3_PartPaymentReducesLiveOutstanding ==
    (last.op = "add" /\ 0 < last.amt /\ last.amt <= last.live) =>
        Resolved(LastLoan).remainingPrincipal = last.live - last.amt

\* C4: addPartPayment stores currentPrincipal = max(0, R - X) with R the
\* resolver's remainingPrincipal at the payment, also when R is 0.
C4_BaselineIsLiveOutstanding ==
    last.op = "add" =>
        LastLoan.currentPrincipal = Max(0, last.live - last.amt)

\* C5: removeLastPartPayment on a loan with a part payment removes the entry
\* inserted last, whatever the entries' dates, keeps the other entries in
\* their order, and sets currentPrincipal to
\* min(currentPrincipal + removed.amount, principalAmount); the list always
\* holds its entries in the order of their insertion.
C5_UndoRemovesLastInserted ==
    /\ \A i \in 1 .. Len(loans) :
          \A j, k \in 1 .. Len(loans[i].partPayments) :
              j < k => loans[i].partPayments[j].id < loans[i].partPayments[k].id
    /\ (last.op = "undo" /\ Len(last.pre.partPayments) > 0) =>
          LET old == last.pre.partPayments
              removed == old[Len(old)]
          IN  /\ LastLoan.partPayments = SubSeq(old, 1, Len(old) - 1)
              /\ \A k \in 1 .. Len(old) - 1 : old[k].id < removed.id
              /\ LastLoan.currentPrincipal =
                    Min(last.pre.currentPrincipal + removed.amount,
                        last.pre.principalAmount)

\* an undo of two entries of which the one inserted last has the earlier date
C5_Witness ==
    /\ last.op = "undo"
    /\ Len(last.pre.partPayments) >= 2
    /\ DateLess(last.pre.partPayments[Len(last.pre.partPayments)].date,
                last.pre.partPayments[1].date)

\* C6: in every reachable state and for every date, the resolver returns
\* remainingPrincipal >= 0, totalInterest >= 0 and totalAmount >= 0.
C6_ResolverOutputsNonNegative ==
    \A i \in 1 .. Len(loans) : \A t \in AllDates :
        LET d == calculateLoanDetails(loans[i], t)
        IN  d.remainingPrincipal >= 0 /\ d.totalInterest >= 0 /\ d.totalAmount >= 0

\* after a part payment, a loan with an outstanding balance whose due EMIs
\* pay more than the balance at some date
C6_Witness ==
    /\ last.op = "add"
    /\ LastLoan.currentPrincipal > 0
    /\ \E t \in AllDates :
          /\ calculateLoanDetails(LastLoan, t).emiAmount > 0
          /\ calculateLoanDetails(LastLoan, t).remainingPrincipal = 0

\* C7: for a loan with tenure >= 0 and every date, remainingEmis is in
\* 0 .. tenure and remainingEmis + emisPaid = tenure.
C7_RemainingPlusPaidIsTenure ==
    \A i \in 1 .. Len(loans) :
        loans[i].tenure >= 0 =>
            LET emisPaid == getEmisPaid(loans[i], today)
                remainingEmis == Resolved(loans[i]).remainingEmis
            IN  /\ remainingEmis \in 0 .. loans[i].tenure
                /\ remainingEmis + emisPaid = loans[i].tenure

\* more payments have fallen due than the loan's tenure
C7_Witness ==
    /\ Len(loans) = 1
    /\ loans[1].tenure > 0
    /\ duesSeen > loans[1].tenure
    /\ getEmisPaid(loans[1], today) = loans[1].tenure

\* C8: paymentsDue counts the due days (5th of a month) from the start date
\* to today, both included: the first due date is the first 5th on or after
\* the start date, the count is 0 before it, and a loan started on the 1st of
\* month M has 3 payments due on the 10th of month M+2.
C8_PaymentsDueCountsDueDays ==
    \A i \in 1 .. Len(loans) :
        LET startDate == loans[i].startDate
            firstDue == firstDueOf(startDate)
        IN  /\ paymentsDue(startDate, today) = duesSeen
            /\ firstDue.date = DueDay
            /\ MonthIndex(firstDue) =
                  IF startDate.date <= DueDay THEN MonthIndex(startDate)
                  ELSE MonthIndex(startDate) + 1
            /\ DateLess(today, firstDue) => paymentsDue(startDate, today) = 0
            /\ (startDate.date = 1 /\ today.date = 10
                  /\ MonthIndex(today) = MonthIndex(startDate) + 2)
                  => paymentsDue(startDate, today) = 3

\* the 10th of month M+2 for a loan started on the 1st of month M
C8_Witness ==
    /\ Len(loans) = 1
    /\ loans[1].startDate.date = 1
    /\ today.date = 10
    /\ MonthIndex(today) = MonthIndex(loans[1].startDate) + 2
    /\ duesSeen = 3

\* C9: paymentsDue (and its clamp to the tenure) does not decrease as today
\* advances, and increases by at most 1 from one day to the next.
C9_PaymentsDueMonotone ==
    \A i \in 1 .. Len(loans) :
        LET startDate == loans[i].startDate
        IN  /\ \A t \in AllDates :
                  DateLeq(today, t) =>
                      /\ paymentsDue(startDate, today) <= paymentsDue(startDate, t)
                      /\ getEmisPaid(loans[i], today) <= getEmisPaid(loans[i], t)
            /\ paymentsDue(startDate, NextDay(today))
                  <= paymentsDue(startDate, today) + 1

\* a day before the 5th of January, after two due days of the year before
C9_Witness ==
    /\ Len(loans) = 1
    /\ today.month = 0
    /\ today.date < DueDay
    /\ duesSeen = 2
    /\ paymentsDue(loans[1].startDate, today) = 2

\* C10: calculateEMI returns 0, and no NaN or infinite value, when
\* tenureMonths <= 0 or principal <= 0 or the monthly rate <= 0.
C10_EmiZeroOnDegenerateInput ==
    (last.op = "emi"
        /\ (fin.tenureMonths <= 0 \/ fin.principal <= 0 \/ fin.annualRate <= 0)) =>
        /\ fout.table = 0
        /\ fout.utils.finite
        /\ fout.utils.val = 0

\* C11: for principal > 0, rate > 0 and tenure > 0 the EMI is > 0; the
\* amortization step applied tenure times from the principal at that EMI
\* leaves a balance of 0 within rounding (at most one unit per step), and the
\* balance is still > 0 after tenure - 1 steps.
C11_EmiAmortizesInTenure ==
    (last.op = "emi" /\ fin.principal > 0 /\ fin.annualRate > 0
        /\ fin.tenureMonths > 0) =>
        /\ fout.table > 0
        /\ PaidLoop(0, fin.tenureMonths, fin.principal, fout.table,
                    fin.annualRate) <= fin.tenureMonths
        /\ PaidLoop(0, fin.tenureMonths - 1, fin.principal, fout.table,
                    fin.annualRate) > 0

\* an EMI over the longest tenure whose last step clears the balance
C11_Witness ==
    /\ last.op = "emi"
    /\ fin.principal > 0 /\ fin.annualRate > 0
    /\ fin.tenureMonths = MaxTenure
    /\ fout.table > 0
    /\ PaidLoop(0, fin.tenureMonths, fin.principal, fout.table,
                fin.annualRate) <= fin.tenureMonths
    /\ PaidLoop(0, fin.tenureMonths - 1, fin.principal, fout.table,
                fin.annualRate) > fin.tenureMonths

\* C12: the EMI the resolver uses and returns as emiAmount is customEmi when
\* useCustomEmi is true and customEmi > 0, and otherwise the formula EMI of
\* principalAmount, interestRate and tenure: not of currentPrincipal and not
\* the stored emiAmount.
C12_SelectedEmiIsCustomOrFormula ==
    \A i \in 1 .. Len(loans) : \A t \in ClockDates \cup {today} :
        calculateLoanDetails(loans[i], t).emiAmount =
            IF loans[i].useCustomEmi /\ Has(loans[i].customEmi)
                /\ Val(loans[i].customEmi) > 0
            THEN Val(loans[i].customEmi)
            ELSE calculateEMI(loans[i].principalAmount, loans[i].interestRate,
                              loans[i].tenure)

\* a loan without custom EMI whose outstanding is below its principal and
\* whose stored emiAmount is not the formula EMI
C12_Witness ==
    /\ last.op = "add"
    /\ ~LastLoan.useCustomEmi
    /\ 0 < LastLoan.currentPrincipal
    /\ LastLoan.currentPrincipal < LastLoan.principalAmount
    /\ LastLoan.emiAmount /= calculateEMI(LastLoan.principalAmount,
                                           LastLoan.interestRate, LastLoan.tenure)
    /\ calculateEMI(LastLoan.currentPrincipal, LastLoan.interestRate,
                    LastLoan.tenure)
          /= calculateEMI(LastLoan.principalAmount, LastLoan.interestRate,
                          LastLoan.tenure)

\* C13: addPartPayment and removeLastPartPayment leave the resolved emiAmount
\* of the loan unchanged at every date, and leave its stored principalAmount,
\* interestRate, tenure, emiAmount, useCustomEmi and customEmi unchanged.
C13_PartPaymentsKeepEmi ==
    (last.op \in {"add", "undo"}) =>
        /\ \A t \in ClockDates \cup {today} :
              calculateLoanDetails(LastLoan, t).emiAmount
                  = calculateLoanDetails(last.pre, t).emiAmount
        /\ LastLoan.principalAmount = last.pre.principalAmount
        /\ LastLoan.interestRate = last.pre.interestRate
        /\ LastLoan.tenure = last.pre.tenure
        /\ LastLoan.emiAmount = last.pre.emiAmount
        /\ LastLoan.useCustomEmi = last.pre.useCustomEmi
        /\ LastLoan.customEmi = last.pre.customEmi

\* a part payment that lowered the outstanding of a loan on the formula EMI,
\* and its undo
C13_Witness ==
    /\ last.op = "undo"
    /\ last.afterAdd
    /\ ~LastLoan.useCustomEmi
    /\ Resolved(LastLoan).emiAmount > 0
    /\ last.pre.currentPrincipal < last.base.currentPrincipal
    /\ LastLoan.currentPrincipal > last.pre.currentPrincipal

\* C14: the reverse sizing returns 0 (no negative count) when the
\* outstanding is > 0 and the EMI does not exceed the interest of the first
\* month, for example a custom EMI below the monthly interest.
C14_CannotAmortizeIsZero ==
    (last.op = "sim" /\ fin.loan.currentPrincipal > 0
        /\ getSelectedEmi(fin.loan)
              <= Interest(fin.loan.currentPrincipal, fin.loan.interestRate)) =>
        fout.remaining = 0

\* a custom EMI below the interest of the first month
C14_Witness ==
    /\ last.op = "sim"
    /\ fin.loan.useCustomEmi
    /\ fin.loan.currentPrincipal > 0
    /\ 0 < getSelectedEmi(fin.loan)
    /\ getSelectedEmi(fin.loan)
          < Interest(fin.loan.currentPrincipal, fin.loan.interestRate)
    /\ fout.remaining = 0

\* C15: the result of the reverse sizing for an outstanding > 0 whose EMI
\* does not exceed the interest of the first month differs from its result
\* for an outstanding <= 0 (nothing left to pay).
C15_CannotAmortizeDiffersFromPaid ==
    (last.op = "sim" /\ fin.loan.currentPrincipal > 0
        /\ getSelectedEmi(fin.loan)
              <= Interest(fin.loan.currentPrincipal, fin.loan.interestRate)) =>
        \A outstanding \in {0, 0 - fin.loan.currentPrincipal} :
            simulateRemainingEmis(outstanding, getSelectedEmi(fin.loan),
                                  fin.loan.interestRate) /= fout.remaining

\* C16: every simulation loop ends within its static bound.  For a loan
\* with tenure >= 0: the loop over the paid EMIs makes at most
\* emisPaid <= tenure passes, the future-interest loop and the savings loop
\* at most remainingEmis <= tenure passes, the projection has at most 60
\* entries, and the reverse sizing returns a count in 0 .. 1200.
C16_LoopsWithinStaticBounds ==
    (last.op = "sim" /\ fin.loan.tenure >= 0) =>
        /\ fout.passes.paid \in 0 .. getEmisPaid(fin.loan, today)
        /\ getEmisPaid(fin.loan, today) <= fin.loan.tenure
        /\ fout.details.remainingEmis <= fin.loan.tenure
        /\ fout.passes.interest \in 0 .. fout.details.remainingEmis
        /\ fout.passes.savings \in 0 .. fout.details.remainingEmis
        /\ Len(fout.projection) \in 0 .. 60
        /\ Len(fout.projection) <= fout.details.remainingEmis
        /\ fout.remaining \in 0 .. 1200

\* a loan with more than 60 EMIs left whose projection has 60 entries and
\* whose reverse sizing stops at 1200 months
C16_Witness ==
    /\ last.op = "sim"
    /\ fout.details.remainingEmis > 60
    /\ Len(fout.projection) = 60
    /\ fout.projection[60].remainingPrincipal > 0
    /\ fout.remaining = 1200
    /\ fout.passes.paid > 0
    /\ fout.passes.interest = fout.details.remainingEmis
    /\ fout.passes.savings = fout.details.remainingEmis

\* C17: the savings estimator is monotone in the amount: for every loan (on
\* a custom or the formula EMI, also a custom EMI too low to cover the
\* interest) and amounts 0 <= a1 <= a2, savings(loan, a1) <= savings(loan, a2).
C17_SavingsMonotone ==
    last.op = "sim" =>
        \A a1 \in SimAmounts :
            a1 <= fin.amount =>
                calculatePartPaymentSavings(fin.loan, a1, today) <= fout.savings

\* C18: for an amount >= the resolver's remainingPrincipal the savings are
\* the resolver's totalInterest; for a smaller amount they are
\* max(0, old - new), new being the interest simulated from
\* remainingPrincipal - amount over the same remainingEmis at the same EMI.
C18_SavingsDefinition ==
    last.op = "sim" =>
        LET R == fout.details.remainingPrincipal
        IN  fout.savings =
                IF fin.amount >= R
                THEN fout.details.totalInterest
                ELSE Max(0, fout.details.totalInterest
                              - InterestLoop(0, fout.details.remainingEmis,
                                             R - fin.amount,
                                             fout.details.emiAmount,
                                             fin.loan.interestRate, 0))

\* a part payment below the outstanding that saves interest on a loan on the
\* formula EMI
C18_Witness ==
    /\ last.op = "sim"
    /\ ~fin.loan.useCustomEmi
    /\ 0 < fin.amount
    /\ fin.amount < fout.details.remainingPrincipal
    /\ fout.details.remainingEmis > 1
    /\ 0 < fout.savings
    /\ fout.savings < fout.details.totalInterest

\* C19: for every loan collection, with or without an active loan, the
\* suggestions contain the emergency-fund reminder exactly once, as the last
\* item, after the part-payment and the short-term suggestions when present.
C19_EmergencyFundAlwaysLast ==
    last.op = "refresh" =>
        LET sg == fout.suggestions
            rank(x) == CASE x.type = "part_payment" -> 1
                         [] x.type = "general" -> 2
                         [] OTHER -> 3
        IN  /\ Len(sg) >= 1
            /\ sg[Len(sg)].id = <<"emergency-fund">>
            /\ Cardinality({ i \in 1 .. Len(sg) : sg[i].id = <<"emergency-fund">> }) = 1
            /\ \A i, j \in 1 .. Len(sg) : i < j => rank(sg[i]) < rank(sg[j])

\* C20: inactive loans do not influence the aggregates: the total debt, the
\* total monthly EMI, the next EMI date, the combined projection and the
\* suggestions of a collection are those of the collection without its
\* inactive loans.
C20_InactiveLoansExcluded ==
    last.op = "refresh" => fout = useDashboard(ActiveLoans(loans), today)

\* a collection with an active and an inactive loan, both with an
\* outstanding balance and an EMI
C20_Witness ==
    /\ last.op = "refresh"
    /\ \E i, j \in 1 .. Len(loans) :
          /\ loans[i].isActive
          /\ ~loans[j].isActive
          /\ Resolved(loans[j]).remainingPrincipal > 0
          /\ Resolved(loans[j]).remainingEmis > 12
          /\ loans[j].interestRate > loans[i].interestRate
    /\ fout.totalOutstandingDebt > 0
    /\ Len(fout.projection) > 1
    /\ Len(fout.suggestions) = 2

\* C21: the combined projection of two active loans with remainingEmis
\* m < n <= 60, each reaching a balance of 0 at its last scheduled payment,
\* has exactly n entries numbered 1 .. n, and in every entry of a month > m
\* the totals are those of the second loan's entry alone.
C21_CombinedProjectionLength ==
    (last.op = "refresh" /\ Len(ActiveLoans(loans)) = 2) =>
        \A a, b \in 1 .. 2 :
            LET first == calculateLoanProjection(ActiveLoans(loans)[a], today)
                second == calculateLoanProjection(ActiveLoans(loans)[b], today)
                m == calculateLoanDetails(ActiveLoans(loans)[a], today).remainingEmis
                n == calculateLoanDetails(ActiveLoans(loans)[b], today).remainingEmis
            IN  (/\ 0 < m /\ m < n /\ n <= 60
                 /\ Len(first) = m /\ first[m].remainingPrincipal = 0
                 /\ Len(second) = n /\ second[n].remainingPrincipal = 0) =>
                    /\ Len(fout.projection) = n
                    /\ \A month \in 1 .. Len(fout.projection) :
                          fout.projection[month].month = month
                    /\ \A month \in (m + 1) .. Len(fout.projection) :
                          /\ fout.projection[month].totalPrincipalPayment
                                = second[month].principalPayment
                          /\ fout.projection[month].totalInterestPayment
                                = second[month].interestPayment
                          /\ fout.projection[month].totalRemainingPrincipal
                                = second[month].remainingPrincipal

\* C22: the projection of a loan starts from the resolver's
\* remainingPrincipal, has at most min(remainingEmis, 60) entries with the
\* month numbers 1, 2, ..., and stops when the balance reaches 0: only the
\* last entry can have remainingPrincipal = 0, and the recorded
\* remainingPrincipal is >= 0 and does not increase from entry to entry.
C22_ProjectionShape ==
    last.op = "sim" =>
        LET pr == fout.projection
            R == fout.details.remainingPrincipal
        IN  /\ Len(pr) <= Min(fout.details.remainingEmis, 60)
            /\ \A k \in 1 .. Len(pr) :
                  /\ pr[k].month = k
                  /\ pr[k].remainingPrincipal >= 0
                  /\ pr[k].remainingPrincipal = 0 => k = Len(pr)
                  /\ pr[k].remainingPrincipal
                        <= (IF k = 1 THEN R ELSE pr[k - 1].remainingPrincipal)
            /\ Len(pr) >= 1 =>
                  /\ pr[1].interestPayment = Interest(R, fin.loan.interestRate)
                  /\ pr[1].remainingPrincipal = Max(0, R - pr[1].principalPayment)

\* a projection that reaches a balance of 0 before the remaining EMIs are
\* used up
C22_Witness ==
    /\ last.op = "sim"
    /\ Len(fout.projection) >= 2
    /\ Len(fout.projection) < fout.details.remainingEmis
    /\ fout.projection[Len(fout.projection)].remainingPrincipal = 0
    /\ fout.details.remainingPrincipal > 0

\* C28: balance conservation in the projection of a loan: in every entry
\* remainingPrincipal is the balance at the start of the month minus the
\* recorded principalPayment, so that the principalPayment is at most that
\* balance and the recorded principalPayments sum to at most the resolver's
\* remainingPrincipal.
C28_ProjectionConservesBalance ==
    last.op = "sim" =>
        LET pr == fout.projection
            R == fout.details.remainingPrincipal
            before(k) == IF k = 1 THEN R ELSE pr[k - 1].remainingPrincipal
        IN  /\ \A k \in 1 .. Len(pr) :
                  /\ pr[k].remainingPrincipal = before(k) - pr[k].principalPayment
                  /\ pr[k].principalPayment <= before(k)
            /\ SumOver([k \in 1 .. Len(pr) |-> pr[k].principalPayment]) <= R

\* C26: the forward application stops at the first step whose principal
\* portion emi - balance * monthlyRate is <= 0, in the resolver's loop over
\* the paid EMIs, in its future-interest loop and in the projection: no step
\* after the stuck one is applied or recorded.
C26_StuckStepIsLast ==
    last.op = "sim" =>
        LET stuck(balance) ==
                fout.details.emiAmount - Interest(balance, fin.loan.interestRate) <= 0
        IN  /\ (fin.loan.currentPrincipal > 0 /\ fout.details.emiAmount > 0
                  /\ stuck(fin.loan.currentPrincipal)) =>
                    /\ fout.passes.paid <= 1
                    /\ fout.details.remainingPrincipal = fin.loan.currentPrincipal
            /\ (fout.details.remainingPrincipal > 0
                  /\ stuck(fout.details.remainingPrincipal)) =>
                    /\ fout.passes.interest <= 1
                    /\ fout.details.totalInterest
                          <= Interest(fout.details.remainingPrincipal,
                                      fin.loan.interestRate)
            /\ \A k \in 1 .. Len(fout.projection) :
                  fout.projection[k].principalPayment <= 0 =>
                      k = Len(fout.projection)

\* the fields of the loan after the merge of the edit
MergedOf(field) == Merged(fin.loan[field], fin.updates[field])
MergedCustomEmi ==
    IF fin.updates.customEmiKey THEN fin.updates.customEmi ELSE fin.loan.customEmi
MergedOutstanding ==
    IF Has(fin.updates.principalAmount) /\ ~Has(fin.updates.currentPrincipal)
    THEN Val(fin.updates.principalAmount)
    ELSE MergedOf("currentPrincipal")
EditedEmi ==
    Has(fin.updates.emiAmount) \/ Has(fin.updates.customEmi)
        \/ Has(fin.updates.useCustomEmi)

\* C23: updateLoan on a loan that is not in custom-EMI mode, with an edit of
\* interestRate or tenure that supplies none of emiAmount, customEmi and
\* useCustomEmi, and a merged tenure > 0, stores
\* emiAmount = emi(outstanding, rate, tenure): outstanding is the
\* currentPrincipal after the merge, also when it is 0, rate and tenure are
\* the merged values.
C23_RateOrTenureEditRecomputesEmi ==
    (last.op = "updated" /\ ~MergedOf("useCustomEmi") /\ ~EditedEmi
        /\ (Has(fin.updates.interestRate) \/ Has(fin.updates.tenure))
        /\ MergedOf("tenure") > 0) =>
        fout.emiAmount = calculateEMI(MergedOutstanding, MergedOf("interestRate"),
                                      MergedOf("tenure"))

\* C24: updateLoan with custom-EMI mode active after the merge and
\* customEmi > 0 stores emiAmount = customEmi, whatever else the edit
\* changes; and an edited emiAmount outside custom mode is stored as it is,
\* whatever formula recomputation the same edit causes.
C24_CustomAndEditedEmiPrevail ==
    last.op = "updated" =>
        /\ (MergedOf("useCustomEmi") /\ Has(MergedCustomEmi)
              /\ Val(MergedCustomEmi) > 0) =>
                fout.emiAmount = Val(MergedCustomEmi)
        /\ (~MergedOf("useCustomEmi") /\ Has(fin.updates.emiAmount)
              /\ Val(fin.updates.emiAmount) > 0) =>
                fout.emiAmount = Val(fin.updates.emiAmount)

\* an edit of principal, rate, tenure and emiAmount on a loan in custom-EMI
\* mode whose custom EMI differs from the edited emiAmount
C24_Witness ==
    /\ last.op = "updated"
    /\ fin.loan.useCustomEmi
    /\ Has(fin.updates.principalAmount) /\ Has(fin.updates.interestRate)
    /\ Has(fin.updates.tenure) /\ Has(fin.updates.emiAmount)
    /\ ~Has(fin.updates.useCustomEmi)
    /\ Val(fin.updates.emiAmount) /= Val(fin.loan.customEmi)
    /\ fout.emiAmount = Val(fin.loan.customEmi)

\* C25: after updateLoan has selected the EMI, the stored tenure is the
\* reverse-sized month count of (outstanding currentPrincipal, selected EMI,
\* rate) when that count is > 0; when the count is 0 the stored tenure is the
\* tenure after the merge of the edit; the recomputation stores no tenure
\* <= 0.
C25_TenureReverseSizedOrKept ==
    last.op = "updated" =>
        LET remaining == simulateRemainingEmis(fout.currentPrincipal,
                                               fout.emiAmount, fout.interestRate)
        IN  /\ remaining > 0 => fout.tenure = remaining
            /\ remaining = 0 => fout.tenure = MergedOf("tenure")
            /\ fout.tenure > 0

\* C27: addPartPayment, removeLastPartPayment and updateLoan called with id L
\* keep the length and the order of the collection and leave every loan
\* whose id is not L as it was; when no loan has id L, and when
\* removeLastPartPayment is called for a loan without part payments, every
\* loan is as it was.
FrameCalled == last.op \in {"addPartPayment", "removeLastPartPayment", "updateLoan"}
C27_MutatorsTouchOnlyTheirLoan ==
    FrameCalled =>
        /\ Len(loans) = Len(fin)
        /\ \A i \in 1 .. Len(fin) :
              /\ loans[i].id = fin[i].id
              /\ fin[i].id /= last.id => loans[i] = fin[i]
        /\ (\A i \in 1 .. Len(fin) : fin[i].id /= last.id) => loans = fin
        /\ (last.op = "removeLastPartPayment"
              /\ \A i \in 1 .. Len(fin) :
                    fin[i].id = last.id => fin[i].partPayments = <<>>) =>
                loans = fin

\* updateLoan changed the second loan of a collection and left the first
C27_Witness ==
    /\ last.op = "updateLoan"
    /\ last.id = 2
    /\ Len(fin) >= 2
    /\ loans[2] /= fin[2]
    /\ loans[1] = fin[1]

\* C29: after any updateLoan the stored emiAmount of the loan equals the
\* emiAmount the resolver reports for it, in custom and in formula mode, with
\* and without part payments.
C29_StoredEmiIsResolvedEmi ==
    (last.op \in {"update", "edit"}) =>
        LastLoan.emiAmount = Resolved(LastLoan).emiAmount

\* C30: for a stored loan that does not change, the remainingPrincipal the
\* resolver reports does not increase as today advances, and once it is 0 it
\* is 0 on every later date.
C30_RemainingNonIncreasingInTime ==
    last.op = "sim" =>
        \A t \in AllDates :
            DateLeq(today, t) =>
                LET later == calculateLoanDetails(fin.loan, t).remainingPrincipal
                IN  /\ later <= fout.details.remainingPrincipal
                    /\ fout.details.remainingPrincipal = 0 => later = 0

\* a loan whose resolved balance is positive today, lower and still positive
\* on a later date and 0 on a date after that
C30_Witness ==
    /\ last.op = "sim"
    /\ fout.details.remainingPrincipal > 0
    /\ \E t1, t2 \in ClockDates :
          /\ DateLess(today, t1) /\ DateLess(t1, t2)
          /\ calculateLoanDetails(fin.loan, t1).remainingPrincipal > 0
          /\ calculateLoanDetails(fin.loan, t1).remainingPrincipal
                < fout.details.remainingPrincipal
          /\ calculateLoanDetails(fin.loan, t2).remainingPrincipal = 0

====
